---- MODULE Spec2Model ----
(***************************************************************************)
(* Model of planner_agent.py: PlannerContext and PlannerAgent.plan().      *)
(*                                                                         *)
(* One planning round is plan(context): the changed-file set is reset, the *)
(* prompt is built from the files of context.created_files, and the        *)
(* completion loop calls the model, accumulates its usage on the context   *)
(* and classifies the reply until a terminal value is returned.            *)
(*                                                                         *)
(* Conventions.  A Python string is a sequence of tokens (whitespace is a  *)
(* token of its own, so that str.strip() is computed, not assumed).  An    *)
(* Optional value is a sequence of length 0 (None) or 1.                   *)
(***************************************************************************)
EXTENDS Integers, Sequences, FiniteSets, TLC

VARIABLES
    pc,                         \* position of plan(): see PcValues
    files_changed_this_round,   \* PlannerContext.files_changed_this_round
    created_files,              \* PlannerContext.created_files
    total_usage,                \* PlannerContext.total_usage (Optional[TokenUsage])
    debug,                      \* PlannerContext.debug
    messages,                   \* the round-local message list of plan()
    message,                    \* response.choices[0].message of the last call
    result,                     \* the value plan() returned (empty: none yet)
    fault,                      \* the exception raised in the current round, if any
    fs,                         \* the file system: filename -> Optional[content]
    round,                      \* number of plan() calls started on the context
    ncalls,                     \* model calls made on the context so far
    startUsage,                 \* history: total_usage when the round began
    roundSum,                   \* history: sum of the per-call usage of this round
    writeLog,                   \* history: filenames create_file wrote in this round, in order
    prevWritten,                \* history: the files written in the round before
    lastWrite,                  \* history: filename -> content of its latest write
    lastStep,                   \* history: what the last classification did
    conversation_history,       \* PlannerContext.conversation_history
    user_input,                 \* PlannerContext.user_input
    iteration,                  \* iterations of the completion loop begun in this round
    sent                        \* history: the message list given to the last model call

vars == <<pc, files_changed_this_round, created_files, total_usage, debug,
          messages, message, result, fault, fs, round, ncalls, startUsage,
          roundSum, writeLog, prevWritten, lastWrite, lastStep,
          conversation_history, user_input, iteration, sent>>

---------------------------------------------------------------------------
(* Bounds of the model *)

MaxCalls == 3
MaxRounds == 2

---------------------------------------------------------------------------
(* Values *)

None == <<>>
Some(v) == <<v>>

PcValues == {"IDLE", "AWAITING_MODEL", "CLASSIFYING_RESPONSE", "DONE", "RAISED"}

Whitespace == {" ", "\n"}

TASK_COMPLETE == <<"TASK_COMPLETE">>
INVOKE_EXECUTOR == <<"INVOKE_EXECUTOR">>
SCRATCHPAD == "scratchpad.md"

Filenames == {SCRATCHPAD, "notes.md"}
Contents == {<<"v1">>, <<"v2">>}

USER_INPUT == <<"research the topic">>
CONVERSATION_HISTORY == << [role |-> "user", content |-> Some(USER_INPUT)] >>
SYSTEM_PROMPT == <<"rules", "\n", "You are the Planner agent">>

\* The free text of a reply: message.content
Texts ==
    { None,
      Some(<<>>),
      Some(<<" ">>),
      Some(TASK_COMPLETE),
      Some(<<" ">> \o TASK_COMPLETE \o <<"\n">>),
      Some(INVOKE_EXECUTOR),
      Some(INVOKE_EXECUTOR \o <<"\n">>),
      Some(<<"prose">>),
      Some(TASK_COMPLETE \o <<" ", "prose">>) }

\* The JSON text of a function call's arguments.  form is "canonical" (what
\* json.dumps writes), "spaced" (the same object, formatted otherwise) or
\* "malformed" (json.loads raises).
Args(form, filename, content) ==
    [form |-> form, filename |-> filename, content |-> content]

Arguments ==
    { Args("canonical", SCRATCHPAD, <<"v1">>),
      Args("canonical", SCRATCHPAD, <<"v2">>),
      Args("canonical", "notes.md", <<"v1">>),
      Args("spaced", "notes.md", <<"v2">>),
      Args("malformed", SCRATCHPAD, <<"v1">>) }

Call(a) == Some([name |-> "create_file", arguments |-> a])

\* What chat_completion can reply: free text alone, a function call alone,
\* neither, or both at once
Replies ==
    [content : Texts, function_call : {None}]
    \cup [content : {None}, function_call : {Call(a) : a \in Arguments}]
    \cup [content : {Some(<<>>), Some(<<"prose">>), Some(INVOKE_EXECUTOR)},
          function_call : {Call(Args("canonical", SCRATCHPAD, <<"v1">>))}]
    \cup [content : {Some(TASK_COMPLETE)},
          function_call : {Call(Args("malformed", SCRATCHPAD, <<"v1">>))}]

\* What one model call reports: the usage dict of get_token_usage()
\* (cached_prompt_tokens is optional) and the wall-clock time of the call
Calls ==
    { [usage |-> [prompt_tokens |-> 3, completion_tokens |-> 1, total_tokens |-> 4],
       thinking_time |-> 1],
      [usage |-> [prompt_tokens |-> 2, completion_tokens |-> 5, total_tokens |-> 7,
                  cached_prompt_tokens |-> 1],
       thinking_time |-> 2] }

ZeroUsage ==
    [prompt_tokens |-> 0, completion_tokens |-> 0, total_tokens |-> 0,
     total_cost |-> 0, thinking_time |-> 0, cached_prompt_tokens |-> 0]

---------------------------------------------------------------------------
(* Pure helpers *)

\* str.strip(): drop leading and trailing whitespace
RECURSIVE lstrip(_)
lstrip(s) ==
    IF s # <<>> /\ Head(s) \in Whitespace THEN lstrip(Tail(s)) ELSE s

RECURSIVE rstrip(_)
rstrip(s) ==
    IF s # <<>> /\ s[Len(s)] \in Whitespace
    THEN rstrip(SubSeq(s, 1, Len(s) - 1))
    ELSE s

strip(s) == rstrip(lstrip(s))

\* Python truth value of an Optional[str]: None and "" are false
Truthy(c) == c # None /\ c[1] # <<>>

\* json.loads(arguments): the parsed dict, or None when it raises
json_loads(a) ==
    IF a.form = "malformed"
    THEN None
    ELSE Some([filename |-> a.filename, content |-> a.content])

\* json.dumps(arguments): always the canonical formatting
json_dumps(d) ==
    [form |-> "canonical", filename |-> d.filename, content |-> d.content]

\* usage.get('cached_prompt_tokens', 0)
cached_of(usage) ==
    IF "cached_prompt_tokens" \in DOMAIN usage THEN usage.cached_prompt_tokens ELSE 0

\* TokenTracker.calculate_cost (common.py): uncached prompt tokens, cached
\* prompt tokens and completion tokens each at their own rate
calculate_cost(prompt_tokens, completion_tokens, cached_tokens) ==
    2 * (prompt_tokens - cached_tokens) + cached_tokens + 4 * completion_tokens

\* log_usage plus the fields plan() reads from the usage dict afterwards
StepUsage(usage, thinking_time) ==
    [prompt_tokens |-> usage.prompt_tokens,
     completion_tokens |-> usage.completion_tokens,
     total_tokens |-> usage.total_tokens,
     total_cost |-> calculate_cost(usage.prompt_tokens, usage.completion_tokens,
                                   cached_of(usage)),
     thinking_time |-> thinking_time,
     cached_prompt_tokens |-> cached_of(usage)]

AddUsage(a, b) ==
    [prompt_tokens |-> a.prompt_tokens + b.prompt_tokens,
     completion_tokens |-> a.completion_tokens + b.completion_tokens,
     total_tokens |-> a.total_tokens + b.total_tokens,
     total_cost |-> a.total_cost + b.total_cost,
     thinking_time |-> a.thinking_time + b.thinking_time,
     cached_prompt_tokens |-> a.cached_prompt_tokens + b.cached_prompt_tokens]

\* Variant of AccumulateUsage: the thinking time is assigned, not added
AccumulateUsage_latest_time(total, step) ==
    IF total = None
    THEN Some(step)
    ELSE Some([AddUsage(total[1], step) EXCEPT !.thinking_time = step.thinking_time])

\* Variant of AccumulateUsage: the step's usage overwrites the totals
AccumulateUsage_overwrite(total, step) == Some(step)

\* The update of context.total_usage after a model call
AccumulateUsage(total, step) ==
    IF total = None THEN Some(step) ELSE Some(AddUsage(total[1], step))

\* Variant of track_file_change: the filename is not recorded
track_file_change_dropped(changed, filename) == changed

\* Variant of track_file_change: the set is replaced by the latest filename
track_file_change_replace(changed, filename) == {filename}

\* PlannerContext.track_file_change / reset_file_changes
track_file_change(changed, filename) == changed \cup {filename}

\* Variant of reset_file_changes: the set is left as it was
reset_file_changes_kept(changed) == changed

reset_file_changes(changed) == {}

\* tools.create_file: write content to the named file
create_file(fsys, filename, content) == [fsys EXCEPT ![filename] = Some(content)]

---------------------------------------------------------------------------
(* Prompt construction *)

ReadError(filename) == <<"[Error reading file: ", "No such file or directory: ", filename, "]">>

\* Variant of _load_file_contents: a file that cannot be read is left out
_load_file_contents_skip(cf, fsys) ==
    [f \in {g \in cf : fsys[g] # None} |-> fsys[f][1]]

\* PlannerAgent._load_file_contents: a dict filename -> content or placeholder
_load_file_contents(cf, fsys) ==
    [f \in cf |-> IF fsys[f] # None THEN fsys[f][1] ELSE ReadError(f)]

\* The iteration order of a set (fixed for a given set)
RECURSIVE SetToSeq(_)
SetToSeq(S) ==
    IF S = {}
    THEN <<>>
    ELSE LET x == CHOOSE y \in S : TRUE IN <<x>> \o SetToSeq(S \ {x})

\* ', '.join(names)
RECURSIVE join(_)
join(names) ==
    IF names = <<>> THEN <<>>
    ELSE IF Len(names) = 1 THEN <<names[1]>>
    ELSE <<names[1], ", ">> \o join(Tail(names))

\* Variant of FileSection: the header is written without the content
FileSection_header_only(filename, content) ==
    <<"\n--- ", filename, " ---\n">> \o <<"\n">>

\* One file's part of the context message
FileSection(filename, content) ==
    <<"\n--- ", filename, " ---\n">> \o content \o <<"\n">>

RECURSIVE FileSections(_, _)
FileSections(order, file_contents) ==
    IF order = <<>>
    THEN <<>>
    ELSE FileSection(Head(order), file_contents[Head(order)])
         \o FileSections(Tail(order), file_contents)

\* PlannerAgent._build_prompt
_build_prompt(cf, fsys, request) ==
    LET file_contents == _load_file_contents(cf, fsys)
        context_message ==
            <<"\nCurrent User Request:\n">> \o request \o <<"\n\n">>
            \o (IF DOMAIN file_contents # {}
                THEN <<"Relevant Files:\n">>
                     \o FileSections(SetToSeq(DOMAIN file_contents), file_contents)
                ELSE <<>>)
            \o <<"\nAvailable Files: ">> \o join(SetToSeq(cf)) \o <<"\n">>
    IN  << [role |-> "system", content |-> Some(SYSTEM_PROMPT)],
           [role |-> "user", content |-> Some(context_message)] >>

---------------------------------------------------------------------------
(* Classification of a reply *)

HANDOFF_WARNING ==
    <<"Warning: You are trying to invoke the executor without updating scratchpad.md.">>
CONTENT_WARNING ==
    <<"Warning: Planner should not output content directly.">>
NO_CALL_ERROR == <<"Error", ": Failed to update progress tracking">>
\* Variant of PlanningError: the bare text of the exception is returned
PlanningError_bare(e) == <<e>>

PlanningError(e) == <<"Error", " during planning: ", e>>

\* Variant of Classify: the control tokens are matched as a prefix of the
\* text (content.startswith) instead of by equality
Classify_prefix(msg) ==
    IF Truthy(msg.content)
    THEN LET content == strip(msg.content[1])
         IN  IF content # <<>> /\ <<Head(content)>> = TASK_COMPLETE THEN "TASK_COMPLETE"
             ELSE IF content # <<>> /\ <<Head(content)>> = INVOKE_EXECUTOR
                  THEN "INVOKE_EXECUTOR"
             ELSE "OTHER_TEXT"
    ELSE IF msg.function_call = None THEN "NO_CALL"
    ELSE "FUNCTION_CALL"

\* Variant of Classify: a function call is handled before the text is looked at
Classify_call_first(msg) ==
    IF msg.function_call # None THEN "FUNCTION_CALL"
    ELSE IF Truthy(msg.content)
    THEN LET content == strip(msg.content[1])
         IN  IF content = TASK_COMPLETE THEN "TASK_COMPLETE"
             ELSE IF content = INVOKE_EXECUTOR THEN "INVOKE_EXECUTOR"
             ELSE "OTHER_TEXT"
    ELSE "NO_CALL"

\* Variant of Classify: both control tokens take the handoff branch
Classify_handoff(msg) ==
    IF Truthy(msg.content)
    THEN LET content == strip(msg.content[1])
         IN  IF content = TASK_COMPLETE \/ content = INVOKE_EXECUTOR
             THEN "INVOKE_EXECUTOR"
             ELSE "OTHER_TEXT"
    ELSE IF msg.function_call = None THEN "NO_CALL"
    ELSE "FUNCTION_CALL"

\* Variant of Classify: a reply with neither text nor call is retried like
\* disallowed text instead of ending the round
Classify_retry(msg) ==
    IF Truthy(msg.content)
    THEN LET content == strip(msg.content[1])
         IN  IF content = TASK_COMPLETE THEN "TASK_COMPLETE"
             ELSE IF content = INVOKE_EXECUTOR THEN "INVOKE_EXECUTOR"
             ELSE "OTHER_TEXT"
    ELSE IF msg.function_call = None THEN "OTHER_TEXT"
    ELSE "FUNCTION_CALL"

\* The branch plan() takes on a reply
Classify(msg) ==
    IF Truthy(msg.content)
    THEN LET content == strip(msg.content[1])
         IN  IF content = TASK_COMPLETE THEN "TASK_COMPLETE"
             ELSE IF content = INVOKE_EXECUTOR THEN "INVOKE_EXECUTOR"
             ELSE "OTHER_TEXT"
    ELSE IF msg.function_call = None THEN "NO_CALL"
    ELSE "FUNCTION_CALL"

\* Variant of WarningTurn: the warning is recorded as an assistant turn
WarningTurn_assistant(warning) == [role |-> "assistant", content |-> Some(warning)]

\* The turn that carries a warning back to the model (lines 288-291, 297-300)
WarningTurn(warning) == [role |-> "user", content |-> Some(warning)]

\* Variant of FileWriteTurns: the confirmation precedes the recorded call
FileWriteTurns_swapped(arguments) ==
    << [role |-> "user",
        content |-> Some(<<"Successfully created/updated file: ", arguments.filename>>)],
       [role |-> "assistant", content |-> None,
        function_call |-> [name |-> "create_file",
                           arguments |-> json_dumps(arguments)]] >>

\* The two turns appended after a file write (lines 320-331)
FileWriteTurns(arguments) ==
    << [role |-> "assistant", content |-> None,
        function_call |-> [name |-> "create_file",
                           arguments |-> json_dumps(arguments)]],
       [role |-> "user",
        content |-> Some(<<"Successfully created/updated file: ", arguments.filename>>)] >>

\* Variant of GuardrailHolds: any file changed this round satisfies it
GuardrailHolds_any(changed) == changed # {}

\* The handoff guardrail
GuardrailHolds(changed) == SCRATCHPAD \in changed

NoMessage == [content |-> None, function_call |-> None]

---------------------------------------------------------------------------
(* State after PlannerContext is constructed, before the first plan() *)

Init ==
    /\ pc = "IDLE"
    /\ files_changed_this_round = {}
    /\ created_files \in SUBSET Filenames
    /\ total_usage = None
    /\ debug \in BOOLEAN
    /\ messages = <<>>
    /\ message = NoMessage
    /\ result = <<>>
    /\ fault = "none"
    /\ fs = [f \in Filenames |-> None]
    /\ round = 0
    /\ ncalls = 0
    /\ startUsage = None
    /\ roundSum = ZeroUsage
    /\ writeLog = <<>>
    /\ prevWritten = {}
    /\ lastWrite = [f \in Filenames |-> None]
    /\ lastStep = "none"
    /\ conversation_history = CONVERSATION_HISTORY
    /\ user_input = USER_INPUT
    /\ iteration = 0
    /\ sent = <<>>

---------------------------------------------------------------------------
(* plan(): entry, lines 181-193 (outside the try block) *)

\* Variant of Plan: the usage totals are cleared at the start of the round
Plan_resets_usage ==
    /\ pc \in {"IDLE", "DONE", "RAISED"}
    /\ round < MaxRounds
    /\ round' = round + 1
    /\ files_changed_this_round' = reset_file_changes(files_changed_this_round)
    /\ messages' = _build_prompt(created_files, fs, user_input)
    /\ message' = NoMessage
    /\ result' = <<>>
    /\ startUsage' = total_usage
    /\ roundSum' = ZeroUsage
    /\ writeLog' = <<>>
    /\ prevWritten' = {writeLog[i] : i \in 1..Len(writeLog)}
    /\ lastStep' = "none"
    /\ \/ /\ pc' = "AWAITING_MODEL"
          /\ fault' = "none"
       \/ \* save_prompt_to_file raises: nothing catches it
          /\ debug
          /\ pc' = "RAISED"
          /\ fault' = "save_prompt_to_file"
    /\ iteration' = 0
    /\ total_usage' = None
    /\ sent' = <<>>
    /\ UNCHANGED <<created_files, conversation_history, user_input,
                   debug, fs, ncalls, lastWrite>>

Plan ==
    /\ pc \in {"IDLE", "DONE", "RAISED"}
    /\ round < MaxRounds
    /\ round' = round + 1
    /\ files_changed_this_round' = reset_file_changes(files_changed_this_round)
    /\ messages' = _build_prompt(created_files, fs, user_input)
    /\ message' = NoMessage
    /\ result' = <<>>
    /\ startUsage' = total_usage
    /\ roundSum' = ZeroUsage
    /\ writeLog' = <<>>
    /\ prevWritten' = {writeLog[i] : i \in 1..Len(writeLog)}
    /\ lastStep' = "none"
    /\ \/ /\ pc' = "AWAITING_MODEL"
          /\ fault' = "none"
       \/ \* save_prompt_to_file raises: nothing catches it
          /\ debug
          /\ pc' = "RAISED"
          /\ fault' = "save_prompt_to_file"
    /\ iteration' = 0
    /\ sent' = <<>>
    /\ UNCHANGED <<created_files, conversation_history, user_input, total_usage,
                   debug, fs, ncalls, lastWrite>>

---------------------------------------------------------------------------
(* The except clause of plan(), lines 336-338 *)

\* Variant of Caught: only json errors are caught, others propagate
Caught_json_only(e) ==
    /\ pc' = (IF e = "json.loads" THEN "DONE" ELSE "RAISED")
    /\ result' = (IF e = "json.loads" THEN PlanningError(e) ELSE <<>>)
    /\ fault' = e

Caught(e) ==
    /\ pc' = "DONE"
    /\ result' = PlanningError(e)
    /\ fault' = e

---------------------------------------------------------------------------
(* One model call: lines 196-272 *)

\* Variant of LoopContinues: the loop gives up after two iterations
LoopContinues_capped(n) == n < 2

\* while True: the loop goes on whatever the number of iterations so far
LoopContinues(n) == TRUE

CallModel ==
    /\ pc = "AWAITING_MODEL"
    /\ LoopContinues(iteration)
    /\ ncalls < MaxCalls
    /\ ncalls' = ncalls + 1
    /\ iteration' = iteration + 1
    /\ sent' = messages
    /\ lastStep' = "none"
    /\ \/ \* chat_completion raises
          /\ Caught("chat_completion")
          /\ UNCHANGED <<total_usage, roundSum, message>>
       \/ \* get_token_usage or log_usage raises
          /\ Caught("get_token_usage")
          /\ UNCHANGED <<total_usage, roundSum, message>>
       \/ \E reply \in Replies, call \in Calls :
            LET step == StepUsage(call.usage, call.thinking_time) IN
            /\ total_usage' = AccumulateUsage(total_usage, step)
            /\ roundSum' = AddUsage(roundSum, step)
            /\ message' = reply
            /\ IF debug /\ reply.function_call # None
                        /\ json_loads(reply.function_call[1].arguments) = None
               THEN Caught("json.loads")
               ELSE \/ /\ pc' = "CLASSIFYING_RESPONSE"
                       /\ UNCHANGED <<result, fault>>
                    \/ \* save_response_to_file raises
                       /\ debug
                       /\ Caught("save_response_to_file")
    /\ UNCHANGED <<files_changed_this_round, created_files, conversation_history,
                   user_input, debug, messages, fs, round, startUsage, writeLog,
                   prevWritten, lastWrite>>

---------------------------------------------------------------------------
(* Classification of the reply: lines 274-334 *)

ReturnTaskComplete ==
    /\ pc = "CLASSIFYING_RESPONSE"
    /\ Classify(message) = "TASK_COMPLETE"
    /\ pc' = "DONE"
    /\ result' = TASK_COMPLETE
    /\ lastStep' = "DONE(TASK_COMPLETE)"
    /\ UNCHANGED <<files_changed_this_round, created_files, conversation_history,
                   user_input, iteration, sent, total_usage, debug,
                   messages, message, fault, fs, round, ncalls, startUsage,
                   roundSum, writeLog, prevWritten, lastWrite>>

ReturnInvokeExecutor ==
    /\ pc = "CLASSIFYING_RESPONSE"
    /\ Classify(message) = "INVOKE_EXECUTOR"
    /\ GuardrailHolds(files_changed_this_round)
    /\ pc' = "DONE"
    /\ result' = strip(message.content[1])
    /\ lastStep' = "DONE(INVOKE_EXECUTOR)"
    /\ UNCHANGED <<files_changed_this_round, created_files, conversation_history,
                   user_input, iteration, sent, total_usage, debug,
                   messages, message, fault, fs, round, ncalls, startUsage,
                   roundSum, writeLog, prevWritten, lastWrite>>

RejectHandoff ==
    /\ pc = "CLASSIFYING_RESPONSE"
    /\ Classify(message) = "INVOKE_EXECUTOR"
    /\ ~GuardrailHolds(files_changed_this_round)
    /\ messages' = Append(messages, WarningTurn(HANDOFF_WARNING))
    /\ pc' = "AWAITING_MODEL"
    /\ lastStep' = "WARN_RETRY"
    /\ UNCHANGED <<files_changed_this_round, created_files, conversation_history,
                   user_input, iteration, sent, total_usage, debug,
                   message, result, fault, fs, round, ncalls, startUsage,
                   roundSum, writeLog, prevWritten, lastWrite>>

WarnFreeText ==
    /\ pc = "CLASSIFYING_RESPONSE"
    /\ Classify(message) = "OTHER_TEXT"
    /\ messages' = Append(messages, WarningTurn(CONTENT_WARNING))
    /\ pc' = "AWAITING_MODEL"
    /\ lastStep' = "WARN_RETRY"
    /\ UNCHANGED <<files_changed_this_round, created_files, conversation_history,
                   user_input, iteration, sent, total_usage, debug,
                   message, result, fault, fs, round, ncalls, startUsage,
                   roundSum, writeLog, prevWritten, lastWrite>>

NoFunctionCall ==
    /\ pc = "CLASSIFYING_RESPONSE"
    /\ Classify(message) = "NO_CALL"
    /\ pc' = "DONE"
    /\ result' = NO_CALL_ERROR
    /\ lastStep' = "DONE(ERROR)"
    /\ UNCHANGED <<files_changed_this_round, created_files, conversation_history,
                   user_input, iteration, sent, total_usage, debug,
                   messages, message, fault, fs, round, ncalls, startUsage,
                   roundSum, writeLog, prevWritten, lastWrite>>

\* Variant of ExecuteFunctionCall: the filename is recorded before the file is
\* written, so that it stays recorded when create_file raises
ExecuteFunctionCall_track_first ==
    /\ pc = "CLASSIFYING_RESPONSE"
    /\ Classify(message) = "FUNCTION_CALL"
    /\ LET parsed == json_loads(message.function_call[1].arguments) IN
       \/ \* json.loads raises
          /\ parsed = None
          /\ Caught("json.loads")
          /\ lastStep' = "DONE(ERROR)"
          /\ UNCHANGED <<files_changed_this_round, messages, fs, writeLog, lastWrite>>
       \/ \* create_file raises
          /\ parsed # None
          /\ Caught("create_file")
          /\ lastStep' = "DONE(ERROR)"
          /\ files_changed_this_round' =
                 track_file_change(files_changed_this_round, parsed[1].filename)
          /\ UNCHANGED <<messages, fs, writeLog, lastWrite>>
       \/ /\ parsed # None
          /\ LET arguments == parsed[1]
                 filename == arguments.filename
                 content == arguments.content
             IN  /\ fs' = create_file(fs, filename, content)
                 /\ files_changed_this_round' =
                        track_file_change(files_changed_this_round, filename)
                 /\ messages' = messages \o FileWriteTurns(arguments)
                 /\ writeLog' = Append(writeLog, filename)
                 /\ lastWrite' = [lastWrite EXCEPT ![filename] = Some(content)]
          /\ pc' = "AWAITING_MODEL"
          /\ lastStep' = "WRITE_FILE"
          /\ UNCHANGED <<result, fault>>
    /\ UNCHANGED <<created_files, conversation_history, user_input, iteration,
                   sent, total_usage, debug, message, round, ncalls, startUsage,
                   roundSum, prevWritten>>

\* Variant of ExecuteFunctionCall: a written file is also added to
\* context.created_files
ExecuteFunctionCall_registers ==
    /\ pc = "CLASSIFYING_RESPONSE"
    /\ Classify(message) = "FUNCTION_CALL"
    /\ LET parsed == json_loads(message.function_call[1].arguments) IN
       \/ \* json.loads raises
          /\ parsed = None
          /\ UNCHANGED created_files
          /\ Caught("json.loads")
          /\ lastStep' = "DONE(ERROR)"
          /\ UNCHANGED <<files_changed_this_round, messages, fs, writeLog, lastWrite>>
       \/ \* create_file raises
          /\ parsed # None
          /\ UNCHANGED created_files
          /\ Caught("create_file")
          /\ lastStep' = "DONE(ERROR)"
          /\ UNCHANGED <<files_changed_this_round, messages, fs, writeLog, lastWrite>>
       \/ /\ parsed # None
          /\ LET arguments == parsed[1]
                 filename == arguments.filename
                 content == arguments.content
             IN  /\ fs' = create_file(fs, filename, content)
                 /\ files_changed_this_round' =
                        track_file_change(files_changed_this_round, filename)
                 /\ messages' = messages \o FileWriteTurns(arguments)
                 /\ writeLog' = Append(writeLog, filename)
                 /\ lastWrite' = [lastWrite EXCEPT ![filename] = Some(content)]
                 /\ created_files' = created_files \cup {filename}
          /\ pc' = "AWAITING_MODEL"
          /\ lastStep' = "WRITE_FILE"
          /\ UNCHANGED <<result, fault>>
    /\ UNCHANGED <<conversation_history, user_input, iteration,
                   sent, total_usage, debug, message, round, ncalls, startUsage,
                   roundSum, prevWritten>>

ExecuteFunctionCall ==
    /\ pc = "CLASSIFYING_RESPONSE"
    /\ Classify(message) = "FUNCTION_CALL"
    /\ LET parsed == json_loads(message.function_call[1].arguments) IN
       \/ \* json.loads raises
          /\ parsed = None
          /\ Caught("json.loads")
          /\ lastStep' = "DONE(ERROR)"
          /\ UNCHANGED <<files_changed_this_round, messages, fs, writeLog, lastWrite>>
       \/ \* create_file raises
          /\ parsed # None
          /\ Caught("create_file")
          /\ lastStep' = "DONE(ERROR)"
          /\ UNCHANGED <<files_changed_this_round, messages, fs, writeLog, lastWrite>>
       \/ /\ parsed # None
          /\ LET arguments == parsed[1]
                 filename == arguments.filename
                 content == arguments.content
             IN  /\ fs' = create_file(fs, filename, content)
                 /\ files_changed_this_round' =
                        track_file_change(files_changed_this_round, filename)
                 /\ messages' = messages \o FileWriteTurns(arguments)
                 /\ writeLog' = Append(writeLog, filename)
                 /\ lastWrite' = [lastWrite EXCEPT ![filename] = Some(content)]
          /\ pc' = "AWAITING_MODEL"
          /\ lastStep' = "WRITE_FILE"
          /\ UNCHANGED <<result, fault>>
    /\ UNCHANGED <<created_files, conversation_history, user_input, iteration,
                   sent, total_usage, debug, message, round, ncalls, startUsage,
                   roundSum, prevWritten>>

---------------------------------------------------------------------------

Next ==
    \/ Plan
    \/ CallModel
    \/ ReturnTaskComplete
    \/ ReturnInvokeExecutor
    \/ RejectHandoff
    \/ WarnFreeText
    \/ NoFunctionCall
    \/ ExecuteFunctionCall

Spec == Init /\ [][Next]_vars

---------------------------------------------------------------------------
(* Vocabulary of the properties *)

\* The reply has free text (a non-empty message.content)
HasText(msg) == msg.content # None /\ msg.content[1] # <<>>

\* The reply's free text is exactly the given string
TextIs(msg, text) == msg.content = Some(text)

\* The reply's free text is the given string up to surrounding whitespace
TextStripsTo(msg, text) == HasText(msg) /\ strip(msg.content[1]) = text

\* The classification step has just acted on the reply held in message
Classified == lastStep # "none"

LastMessage == messages[Len(messages)]

Range(seq) == {seq[i] : i \in 1..Len(seq)}

StartsWithError(text) == text # <<>> /\ Head(text) = "Error"

\* sub occurs in text as a contiguous run of tokens
Contains(text, sub) ==
    \E i \in 0..(Len(text) - Len(sub)) : SubSeq(text, i + 1, i + Len(sub)) = sub

---------------------------------------------------------------------------
(* C1 *)

\* C1: handoff guardrail.  A reply INVOKE_EXECUTOR received while
\* scratchpad.md is not in files_changed_this_round is not returned: plan()
\* appends the handoff warning and goes back to calling the model; and
\* whenever plan() has returned INVOKE_EXECUTOR, scratchpad.md is in
\* files_changed_this_round.
C1_HandoffGuardrail ==
    /\ (pc = "DONE" /\ result = INVOKE_EXECUTOR)
           => SCRATCHPAD \in files_changed_this_round
    /\ (Classified /\ TextStripsTo(message, INVOKE_EXECUTOR)
                   /\ SCRATCHPAD \notin files_changed_this_round)
           => /\ pc = "AWAITING_MODEL"
              /\ result = <<>>
              /\ LastMessage = [role |-> "user", content |-> Some(HANDOFF_WARNING)]

\* A handoff was rejected although another file had been written this round
C1_Witness ==
    /\ Classified
    /\ TextIs(message, INVOKE_EXECUTOR)
    /\ files_changed_this_round = {"notes.md"}
    /\ pc = "AWAITING_MODEL"

---------------------------------------------------------------------------
(* C2 *)

\* C2 (as claimed): a free-text reply whose text is not exactly equal to
\* TASK_COMPLETE or INVOKE_EXECUTOR never terminates the round: it is
\* answered with a warning and another model call.
C2_NotExactTokenNeverTerminates ==
    (Classified /\ HasText(message)
                /\ ~TextIs(message, TASK_COMPLETE)
                /\ ~TextIs(message, INVOKE_EXECUTOR))
        => (pc = "AWAITING_MODEL" /\ result = <<>>)

\* C2 (amended): a free-text reply that reaches classification and whose
\* text, with surrounding whitespace stripped, is neither TASK_COMPLETE nor
\* INVOKE_EXECUTOR never terminates the round: plan() appends the content
\* warning and goes back to calling the model.
C2_OtherTextNeverTerminates ==
    (Classified /\ HasText(message)
                /\ ~TextStripsTo(message, TASK_COMPLETE)
                /\ ~TextStripsTo(message, INVOKE_EXECUTOR))
        => /\ pc = "AWAITING_MODEL"
           /\ result = <<>>
           /\ LastMessage = [role |-> "user", content |-> Some(CONTENT_WARNING)]

\* Prose that begins with a control token was answered with a warning
C2_Witness ==
    /\ Classified
    /\ TextIs(message, TASK_COMPLETE \o <<" ", "prose">>)
    /\ pc = "AWAITING_MODEL"

---------------------------------------------------------------------------
(* C3 *)

\* The filename a reply's function call asks to write
RequestedFile(msg) == msg.function_call[1].arguments.filename

\* C3 (as claimed): every reply carrying a create_file function call results
\* in its filename being in files_changed_this_round (stated for the replies
\* whose handling raised no exception).
C3_EveryRequestTracked ==
    (Classified /\ message.function_call # None /\ fault = "none")
        => RequestedFile(message) \in files_changed_this_round

\* C3 (amended): every file-write request that plan() executes (a reply with
\* no text, whose arguments parse and whose create_file call succeeds)
\* results in its filename being in files_changed_this_round, and the set
\* holds one entry per distinct file written in the round, however many
\* times each was written.
C3_ExecutedRequestTracked ==
    /\ (Classified /\ ~HasText(message) /\ message.function_call # None
                   /\ fault = "none")
           => RequestedFile(message) \in files_changed_this_round
    /\ Cardinality(files_changed_this_round) = Cardinality(Range(writeLog))

\* The same file was written twice in the round
C3_Witness ==
    /\ Classified
    /\ ~HasText(message) /\ message.function_call # None /\ fault = "none"
    /\ writeLog = <<SCRATCHPAD, SCRATCHPAD>>

---------------------------------------------------------------------------
(* C4 *)

\* The four token counters of a usage record
Tokens(u) ==
    <<u.prompt_tokens, u.completion_tokens, u.total_tokens, u.cached_prompt_tokens>>

\* Optional totals read as numbers: unset totals count as zero
OrZero(total) == IF total = None THEN ZeroUsage ELSE total[1]

\* C4 (as claimed): after N >= 1 model calls in a round the four token
\* counters of context.total_usage equal the sums of the per-call values of
\* that round.
C4_TotalsEqualRoundSum ==
    roundSum # ZeroUsage
        => total_usage # None /\ Tokens(total_usage[1]) = Tokens(roundSum)

\* C4 (amended): in every round the four token counters of
\* context.total_usage equal their value when the round began (zero when the
\* totals were unset) plus the sums of the per-call values of every model
\* call of the round whose usage was reported, whatever became of its reply.
C4_TotalsEqualStartPlusRoundSum ==
    /\ Tokens(OrZero(total_usage)) = Tokens(AddUsage(OrZero(startUsage), roundSum))
    /\ roundSum # ZeroUsage => total_usage # None

\* A second round on a context that holds totals: two calls, the first
\* rejected with a warning, the second ending the round
C4_Witness ==
    /\ round = 2
    /\ startUsage # None
    /\ pc = "DONE" /\ result = TASK_COMPLETE
    /\ Len(messages) = 3
    /\ roundSum.total_tokens > 7

---------------------------------------------------------------------------
(* C5 *)

\* The user message of the prompt built at the start of the round
PromptText == messages[2].content[1]

\* File f shown in a prompt with content c
Shown(f, c) == <<"\n--- ", f, " ---\n">> \o c \o <<"\n">>

\* The round has started and no file has been written in it yet
RoundFresh == round >= 1 /\ writeLog = <<>>

\* C5 (as claimed): after a round in which the model wrote file F, the
\* prompt built for the next round contains F with the content of the
\* latest write to F.
C5_WrittenFileInNextPrompt ==
    RoundFresh =>
        \A f \in prevWritten :
            Contains(PromptText, Shown(f, lastWrite[f][1]))

\* C5 (amended): after a round in which the model wrote file F, the prompt
\* built for the next round contains F with exactly the content of the
\* latest write to F if F is in context.created_files; plan() does not add
\* F to created_files, and a file outside it is not in the prompt.
C5_CreatedFileInNextPrompt ==
    RoundFresh =>
        \A f \in prevWritten :
            IF f \in created_files
            THEN Contains(PromptText, Shown(f, lastWrite[f][1]))
            ELSE \A c \in Contents : ~Contains(PromptText, Shown(f, c))

\* scratchpad.md, a created file, was written twice in the round before with
\* different contents
C5_Witness ==
    /\ RoundFresh
    /\ pc = "AWAITING_MODEL"
    /\ SCRATCHPAD \in prevWritten \cap created_files
    /\ lastWrite[SCRATCHPAD] = Some(<<"v2">>)
    /\ ncalls = 3

---------------------------------------------------------------------------
(* C6 *)

\* The exceptions that can be raised inside the completion loop
LoopFaults ==
    {"chat_completion", "get_token_usage", "json.loads", "create_file",
     "save_response_to_file"}

\* C6 (as claimed): any exception raised while plan() runs its round is
\* turned into a returned error string; plan() never raises to its caller.
C6_NeverRaises ==
    /\ pc # "RAISED"
    /\ fault # "none" => (pc = "DONE" /\ StartsWithError(result))

\* C6 (amended): any exception raised inside the completion loop (model
\* call, usage lookup, response debug dump, malformed arguments, file write)
\* is caught and returned as the string 'Error during planning: <e>', which
\* ends the round; only a failure of the prompt debug dump, which runs
\* before the loop, is raised to the caller.
C6_LoopExceptionsReturned ==
    /\ fault \in LoopFaults
           => (pc = "DONE" /\ result = <<"Error", " during planning: ", fault>>)
    /\ pc = "RAISED" => fault = "save_prompt_to_file"
    /\ fault \in LoopFaults \cup {"none", "save_prompt_to_file"}

\* create_file raised and the round ended with the error string
C6_Witness == fault = "create_file" /\ pc = "DONE"

---------------------------------------------------------------------------
(* C7 *)

\* C7: a reply whose free text is exactly TASK_COMPLETE is terminal: from
\* every classification state holding such a reply, whatever
\* files_changed_this_round contains, the step of plan() returns
\* TASK_COMPLETE, writes no file and appends no message.
C7_TaskCompleteTerminal ==
    [][ (pc = "CLASSIFYING_RESPONSE" /\ TextIs(message, TASK_COMPLETE))
            => /\ pc' = "DONE"
               /\ result' = TASK_COMPLETE
               /\ UNCHANGED <<messages, fs, files_changed_this_round>> ]_vars

\* TASK_COMPLETE was returned in a round that never touched scratchpad.md
C7_Witness ==
    /\ Classified
    /\ TextIs(message, TASK_COMPLETE)
    /\ pc = "DONE" /\ result = TASK_COMPLETE
    /\ SCRATCHPAD \notin files_changed_this_round

---------------------------------------------------------------------------
(* C8 *)

\* C8: the changed-file set is cleared when plan() starts, before the prompt
\* is built and before any model call, so that it is empty until the round
\* writes a file; INVOKE_EXECUTOR is returned only if scratchpad.md was
\* written after the start of the current plan() call, whatever earlier
\* rounds on the same context wrote.
C8_ResetEachRound ==
    /\ RoundFresh => files_changed_this_round = {}
    /\ (pc = "DONE" /\ result = INVOKE_EXECUTOR) => SCRATCHPAD \in Range(writeLog)

\* A handoff was rejected in a round that followed a round that had written
\* scratchpad.md
C8_Witness ==
    /\ round >= 2
    /\ SCRATCHPAD \in prevWritten
    /\ Classified
    /\ TextStripsTo(message, INVOKE_EXECUTOR)
    /\ pc = "AWAITING_MODEL"
    /\ LastMessage = [role |-> "user", content |-> Some(HANDOFF_WARNING)]

---------------------------------------------------------------------------
(* C9 *)

\* C9: a reply with neither text content nor a function call is a terminal
\* error: the step of plan() returns 'Error: Failed to update progress
\* tracking', writes no file, leaves files_changed_this_round and the message
\* list as they were and makes no further model call.
C9_NeitherTextNorCall ==
    [][ (pc = "CLASSIFYING_RESPONSE" /\ ~HasText(message)
                                     /\ message.function_call = None)
            => /\ pc' = "DONE"
               /\ result' = <<"Error", ": Failed to update progress tracking">>
               /\ UNCHANGED <<fs, files_changed_this_round, messages, ncalls>> ]_vars

\* The error was returned after a file had been written in the round
C9_Witness ==
    /\ Classified
    /\ ~HasText(message) /\ message.function_call = None
    /\ pc = "DONE"
    /\ files_changed_this_round # {}

---------------------------------------------------------------------------
(* C10 *)

\* The value returned is one of the two signals or an error string
ReturnValueOk(r) == r = TASK_COMPLETE \/ r = INVOKE_EXECUTOR \/ StartsWithError(r)

\* The step wrote a file and went back to calling the model
WroteFileThenCall ==
    /\ pc' = "AWAITING_MODEL"
    /\ Len(messages') = Len(messages) + 2
    /\ SubSeq(messages', 1, Len(messages)) = messages
    /\ \E f \in Filenames : fs'[f] # None /\ f \in files_changed_this_round'
    /\ result' = <<>>

\* The step appended a warning and went back to calling the model
WarnedThenCall ==
    /\ pc' = "AWAITING_MODEL"
    /\ \E w \in {HANDOFF_WARNING, CONTENT_WARNING} :
           messages' = Append(messages, [role |-> "user", content |-> Some(w)])
    /\ UNCHANGED <<fs, files_changed_this_round>>
    /\ result' = <<>>

\* C10: every value plan() returns is TASK_COMPLETE, INVOKE_EXECUTOR or an
\* error string starting with 'Error'; and the only successors of the
\* response-classification state are a return of one of those values, a
\* file write followed by another model call, or a warning followed by
\* another model call.
C10_ReturnValuesAndSuccessors ==
    /\ [](pc = "DONE" => ReturnValueOk(result))
    /\ [](pc # "DONE" => result = <<>>)
    /\ [][ pc = "CLASSIFYING_RESPONSE"
               => \/ pc' = "DONE" /\ ReturnValueOk(result')
                  \/ WroteFileThenCall
                  \/ WarnedThenCall ]_vars

\* The classification of a file-write request ended with an error string
C10_Witness ==
    /\ pc = "DONE"
    /\ Classified
    /\ fault = "json.loads"
    /\ StartsWithError(result)

---------------------------------------------------------------------------
(* C11 *)

\* The reply is one that plan() answers by going round the loop again
NonTerminalReply(msg) ==
    \/ HasText(msg) /\ ~TextStripsTo(msg, TASK_COMPLETE)
                    /\ ~TextStripsTo(msg, INVOKE_EXECUTOR)
    \/ TextStripsTo(msg, INVOKE_EXECUTOR) /\ SCRATCHPAD \notin files_changed_this_round
    \/ ~HasText(msg) /\ msg.function_call # None

\* C11: the completion loop has no iteration cap.  Whatever the number of
\* iterations so far, a round that awaits the model can call it again (only
\* the bound MaxCalls of the model stops it); a disallowed text, a premature
\* INVOKE_EXECUTOR or an executed file write leaves the round awaiting the
\* model; and the round has returned only on a terminal reply or an
\* exception.
C11_NoIterationCap ==
    /\ (pc = "AWAITING_MODEL" /\ ncalls < MaxCalls) => ENABLED CallModel
    /\ (Classified /\ NonTerminalReply(message) /\ fault = "none")
           => (pc = "AWAITING_MODEL" /\ result = <<>>)
    /\ (pc = "DONE" /\ fault = "none")
           => /\ Classified
              /\ \/ TextStripsTo(message, TASK_COMPLETE)
                 \/ TextStripsTo(message, INVOKE_EXECUTOR)
                 \/ ~HasText(message) /\ message.function_call = None

\* A round in which every model call the bound allows was answered by a
\* retry, file writes and warnings among them, and which still awaits the
\* model
C11_Witness ==
    /\ iteration = MaxCalls
    /\ pc = "AWAITING_MODEL"
    /\ writeLog # <<>>
    /\ Len(messages) = 2 + iteration + Len(writeLog)
    /\ Len(writeLog) < iteration

---------------------------------------------------------------------------
(* C12 *)

\* The round's plan() call has built its prompt and not yet called the model
PromptJustBuilt == round >= 1 /\ iteration = 0

\* File f shown in a prompt with the placeholder of a failed read
ShownUnreadable(f) == <<"\n--- ", f, " ---\n", "[Error reading file: ">>

\* C12: prompt construction never aborts because a context file cannot be
\* read.  The prompt is exactly a system message followed by one user
\* message; in it every file of created_files whose read fails appears under
\* its filename with a placeholder '[Error reading file: ...]' and every
\* readable file appears with its full content.
C12_PromptSurvivesReadFailure ==
    PromptJustBuilt =>
        /\ Len(messages) = 2
        /\ messages[1] = [role |-> "system", content |-> Some(SYSTEM_PROMPT)]
        /\ messages[2].role = "user"
        /\ \A f \in created_files :
               IF fs[f] = None
               THEN Contains(PromptText, ShownUnreadable(f))
               ELSE Contains(PromptText, Shown(f, fs[f][1]))

\* A prompt built from one readable and one unreadable file
C12_Witness ==
    /\ PromptJustBuilt
    /\ pc = "AWAITING_MODEL"
    /\ created_files = Filenames
    /\ fs[SCRATCHPAD] # None
    /\ fs["notes.md"] = None

---------------------------------------------------------------------------
(* C13 *)

\* The reply is a file-write request: no text, and a function call
WriteRequest(msg) == ~HasText(msg) /\ msg.function_call # None

\* The arguments of the reply's function call
RequestedArgs(msg) == msg.function_call[1].arguments

\* C13: on a file-write request the file is written, the filename is
\* recorded in files_changed_this_round, and exactly two turns are appended
\* to the message list: an assistant turn recording the create_file call
\* with its arguments, then a user turn confirming success for the filename.
\* A request whose write fails ends the round with nothing recorded and
\* nothing appended, the write being the first of the steps.  The model is
\* then called with the whole extended list.
C13_FileWriteSteps ==
    /\ [][ (pc = "CLASSIFYING_RESPONSE" /\ WriteRequest(message))
               => LET a == RequestedArgs(message) IN
                  \/ /\ pc' = "AWAITING_MODEL"
                     /\ a.form # "malformed"
                     /\ fs' = [fs EXCEPT ![a.filename] = Some(a.content)]
                     /\ files_changed_this_round' =
                            files_changed_this_round \cup {a.filename}
                     /\ messages' = messages \o
                          << [role |-> "assistant", content |-> None,
                              function_call |->
                                  [name |-> "create_file",
                                   arguments |-> [form |-> "canonical",
                                                  filename |-> a.filename,
                                                  content |-> a.content]]],
                             [role |-> "user",
                              content |-> Some(<<"Successfully created/updated file: ",
                                                 a.filename>>)] >>
                  \/ /\ pc' = "DONE"
                     /\ UNCHANGED <<fs, files_changed_this_round, messages>> ]_vars
    /\ [](pc = "CLASSIFYING_RESPONSE" => sent = messages)

\* The model was called again with the list extended by the two turns of a
\* write of notes.md
C13_Witness ==
    /\ pc = "CLASSIFYING_RESPONSE"
    /\ writeLog = <<"notes.md">>
    /\ Len(sent) = 4
    /\ sent[3].role = "assistant"
    /\ sent[4].role = "user"

---------------------------------------------------------------------------
(* C14 *)

\* Every total of b is at least the corresponding total of a
NoLower(a, b) ==
    /\ b.prompt_tokens >= a.prompt_tokens
    /\ b.completion_tokens >= a.completion_tokens
    /\ b.total_tokens >= a.total_tokens
    /\ b.cached_prompt_tokens >= a.cached_prompt_tokens
    /\ b.total_cost >= a.total_cost
    /\ b.thinking_time >= a.thinking_time

\* C14: with non-negative per-call usage, no step of plan() lowers
\* prompt_tokens, completion_tokens, total_tokens, cached_prompt_tokens,
\* total_cost or thinking_time of context.total_usage (unset totals count
\* as zero).
C14_TotalsNeverDecrease ==
    [][ NoLower(OrZero(total_usage), OrZero(total_usage')) ]_vars

\* Two model calls were accounted in one round, the larger usage first
C14_Witness ==
    /\ iteration = 2
    /\ startUsage = None
    /\ total_usage # None
    /\ total_usage[1].total_tokens = 11
    /\ total_usage[1].thinking_time = 3
    /\ lastStep = "WARN_RETRY"

---------------------------------------------------------------------------
(* C15 *)

\* The reply is a premature handoff
PrematureHandoff(msg) ==
    TextStripsTo(msg, INVOKE_EXECUTOR) /\ SCRATCHPAD \notin files_changed_this_round

\* The reply is free text other than the two control tokens
DisallowedText(msg) ==
    HasText(msg) /\ ~TextStripsTo(msg, TASK_COMPLETE)
                 /\ ~TextStripsTo(msg, INVOKE_EXECUTOR)

\* C15: a warn-and-retry step (a rejected INVOKE_EXECUTOR or a disallowed
\* free text) appends exactly one user-role warning to the end of the
\* message list and changes nothing else: no file is written,
\* files_changed_this_round and the rest of the context are unchanged and
\* the earlier messages keep their order and content.
C15_WarnRetryFrame ==
    [][ (pc = "CLASSIFYING_RESPONSE"
            /\ (PrematureHandoff(message) \/ DisallowedText(message)))
            => /\ messages' = Append(messages,
                     [role |-> "user",
                      content |-> Some(IF DisallowedText(message)
                                       THEN CONTENT_WARNING
                                       ELSE HANDOFF_WARNING)])
               /\ UNCHANGED <<fs, files_changed_this_round, created_files,
                              total_usage, conversation_history, user_input>> ]_vars

\* A warning was appended after the two turns of an earlier file write
C15_Witness ==
    /\ Classified
    /\ DisallowedText(message)
    /\ writeLog # <<>>
    /\ Len(messages) = 5
    /\ LastMessage = [role |-> "user", content |-> Some(CONTENT_WARNING)]

---------------------------------------------------------------------------
(* C16 *)

\* The reply carries both free text and a function call
TextAndCall(msg) == HasText(msg) /\ msg.function_call # None

\* Failures that do not depend on what the reply carries
OutsideFaults == {"chat_completion", "get_token_usage", "save_response_to_file"}

\* C16 (as claimed): a reply carrying both text and a create_file call is
\* classified by its text only, so a round that ended on such a reply ended
\* with the control token its text spells.
C16_TextDecidesAlone ==
    (TextAndCall(message) /\ pc = "DONE" /\ fault \notin OutsideFaults)
        => (result = TASK_COMPLETE \/ result = INVOKE_EXECUTOR)

\* C16 (amended): for a reply carrying both text and a create_file call the
\* file write is never performed and the filename is not added to
\* files_changed_this_round; the reply is classified by its text only
\* (terminal token, or warn-and-retry), except that with context.debug set a
\* call whose arguments are not valid JSON makes the response dump raise, and
\* the round then ends with 'Error during planning' before the text is
\* looked at.
C16_TextPrecedence ==
    /\ [][ (pc = "CLASSIFYING_RESPONSE" /\ TextAndCall(message))
               => /\ UNCHANGED <<fs, files_changed_this_round>>
                  /\ \/ /\ TextStripsTo(message, TASK_COMPLETE)
                        /\ pc' = "DONE" /\ result' = TASK_COMPLETE
                     \/ /\ TextStripsTo(message, INVOKE_EXECUTOR)
                        /\ SCRATCHPAD \in files_changed_this_round
                        /\ pc' = "DONE" /\ result' = INVOKE_EXECUTOR
                     \/ /\ PrematureHandoff(message) \/ DisallowedText(message)
                        /\ pc' = "AWAITING_MODEL"
                        /\ Len(messages') = Len(messages) + 1 ]_vars
    /\ [][ (pc = "AWAITING_MODEL" /\ TextAndCall(message'))
               => UNCHANGED <<fs, files_changed_this_round>> ]_vars
    /\ [](( TextAndCall(message) /\ fault = "json.loads")
               => (debug /\ ~Classified /\ pc = "DONE"
                         /\ result = <<"Error", " during planning: ", "json.loads">>))

\* A handoff that came with a call to write scratchpad.md was rejected and
\* the file was not written
C16_Witness ==
    /\ Classified
    /\ TextAndCall(message)
    /\ TextIs(message, INVOKE_EXECUTOR)
    /\ RequestedFile(message) = SCRATCHPAD
    /\ pc = "AWAITING_MODEL"
    /\ fs[SCRATCHPAD] = None

---------------------------------------------------------------------------
(* C17 *)

\* The exceptions of executing a file-write request
WriteFaults == {"json.loads", "create_file"}

\* C17: if executing a file-write request fails (the arguments are not valid
\* JSON, or create_file raises), the filename is not added to
\* files_changed_this_round, no turn is appended, and the round ends with an
\* error string starting 'Error during planning:', the usage of the model
\* call that produced the request being already in the totals.
C17_FailedWrite ==
    /\ [][ (pc # "DONE" /\ fault' \in WriteFaults)
               => UNCHANGED <<files_changed_this_round, messages>> ]_vars
    /\ [][ (pc = "CLASSIFYING_RESPONSE" /\ fault' \in WriteFaults)
               => (WriteRequest(message) /\ UNCHANGED total_usage) ]_vars
    /\ [](fault \in WriteFaults
              => /\ pc = "DONE"
                 /\ result = <<"Error", " during planning: ", fault>>
                 /\ roundSum # ZeroUsage
                 /\ total_usage = Some(AddUsage(OrZero(startUsage), roundSum)))

\* create_file raised for a file that the round had not written, after
\* another file had been written
C17_Witness ==
    /\ fault = "create_file"
    /\ WriteRequest(message)
    /\ files_changed_this_round # {}
    /\ RequestedFile(message) \notin files_changed_this_round
    /\ pc = "DONE"

---------------------------------------------------------------------------
(* C18 *)

\* C18: plan() mutates only files_changed_this_round and total_usage on the
\* context: conversation_history, created_files and user_input are unchanged
\* by every step of every round; warnings and file-write turns go to the
\* round-local message list only, and a file written during the round is not
\* added to created_files.
C18_ContextFrame ==
    [][ /\ UNCHANGED <<conversation_history, created_files, user_input>>
        /\ (messages' # messages /\ pc # "IDLE" /\ round' = round)
               => conversation_history' = CONVERSATION_HISTORY
        /\ (writeLog' # writeLog /\ round' = round)
               => (created_files' = created_files
                   /\ Len(messages') = Len(messages) + 2) ]_vars

\* a round that wrote a file which is not one of the created files, took a
\* warning, and has ended
C18_Witness ==
    /\ pc = "DONE"
    /\ \E f \in files_changed_this_round : f \notin created_files
    /\ \E i \in 1..Len(messages) : messages[i].content = Some(CONTENT_WARNING)
    /\ conversation_history = CONVERSATION_HISTORY
    /\ total_usage # None

---------------------------------------------------------------------------
(* C19 *)

\* C19: plan() never resets context.total_usage: entering a round leaves the
\* totals as they were while files_changed_this_round is emptied, and when a
\* round on a context that already holds totals has ended, the totals are
\* the prior totals plus the sum of this round's per-call usage.
C19_TotalsCarriedOver ==
    /\ [][ round' # round
               => /\ total_usage' = total_usage
                  /\ startUsage' = total_usage
                  /\ files_changed_this_round' = {} ]_vars
    /\ []( (pc \in {"DONE", "RAISED"} /\ startUsage # None)
               => total_usage = Some(AddUsage(startUsage[1], roundSum)) )

\* the second round on a context has ended: the first round left totals and
\* written files, the second made a model call and wrote nothing
C19_Witness ==
    /\ round = 2
    /\ pc = "DONE"
    /\ startUsage # None
    /\ roundSum # ZeroUsage
    /\ prevWritten # {}
    /\ files_changed_this_round = {}
    /\ total_usage # startUsage

---------------------------------------------------------------------------
(* C20 *)

\* C20: within one round files_changed_this_round only grows after the
\* initial reset and is exactly the set of filenames of the file-write
\* requests completed so far in the round; hence once scratchpad.md has been
\* written in the round, every later INVOKE_EXECUTOR reply of the round is
\* honored, whatever writes or warnings came in between.
C20_ChangedSetGrows ==
    /\ [](files_changed_this_round = Range(writeLog))
    /\ [][ round' = round
               => files_changed_this_round \subseteq files_changed_this_round' ]_vars
    /\ [][ (/\ pc = "CLASSIFYING_RESPONSE"
            /\ TextStripsTo(message, INVOKE_EXECUTOR)
            /\ SCRATCHPAD \in Range(writeLog))
               => /\ pc' = "DONE"
                  /\ result' = INVOKE_EXECUTOR
                  /\ fault' = "none"
                  /\ UNCHANGED <<files_changed_this_round, messages>> ]_vars

\* scratchpad.md was written, a later reply was answered with a warning, and
\* the INVOKE_EXECUTOR reply after that was honored
C20_Witness ==
    /\ pc = "DONE"
    /\ result = INVOKE_EXECUTOR
    /\ TextStripsTo(message, INVOKE_EXECUTOR)
    /\ writeLog = <<SCRATCHPAD>>
    /\ Len(messages) > 4
    /\ LastMessage.content = Some(CONTENT_WARNING)

====
